---- MODULE Spec2Model ----
(***************************************************************************)
(* A model of the job scraping engine: UniversalJobScraper                 *)
(* (src/universal_job_scraper.py), JobScraperEngine                        *)
(* (src/engine/scraper_engine.py) and the batch sink of src/main.py.       *)
(*                                                                         *)
(* A parsed listing page is represented by what its selectors extract: a   *)
(* sequence of containers (the extracted title and apply_url of each) and  *)
(* the outcome of the next-link lookup.  The Fetcher, the file system and  *)
(* the pages of the site are the environment: their outcomes are chosen    *)
(* with \E at the step that calls them.                                    *)
(***************************************************************************)
EXTENDS Integers, Sequences, FiniteSets, TLC

VARIABLES
    pc,                 \* position inside scrape_site
    config,             \* the loaded site profile ({} when loading failed)
    max_pages,          \* argument of scrape_site
    scrape_details,     \* argument scrape_job_details of scrape_site
    current_url,        \* local current_url of scrape_site
    pages_scraped,      \* local pages_scraped of scrape_site
    seen_urls,          \* local seen_urls of scrape_site
    all_jobs,           \* local all_jobs of scrape_site (the value returned)
    unique_page_jobs,   \* local unique_page_jobs of the current page
    idx,                \* index i of the detail loop
    next_link,          \* next-link part of html_content of the current page
    db,                 \* rows of table jobs in jobs_database.db
    fetches,            \* number of Fetcher calls of this invocation, by kind
    config_files,       \* argument of scrape_multiple_sites (<<>> for a direct scrape_site call)
    file_i,             \* position of the loop of scrape_multiple_sites
    results,            \* local results of scrape_multiple_sites
    table,              \* rows of table jobs of config/database.py (main.py)
    arg,                \* argument of the function under study
    ret                 \* what it returned

vars == <<pc, config, max_pages, scrape_details, current_url, pages_scraped,
          seen_urls, all_jobs, unique_page_jobs, idx, next_link, db, fetches,
          config_files, file_i, results, table, arg, ret>>

crawl_vars == <<config, max_pages, scrape_details, current_url, pages_scraped, seen_urls, all_jobs, unique_page_jobs, idx, next_link, db, fetches>>

multi_vars == <<config_files, file_i, results>>

aux_vars == <<table, arg, ret>>

outer_vars == <<multi_vars, aux_vars>>

-----------------------------------------------------------------------------
(* Bounds of the model *)

MaxPages == 2          \* max_pages argument and pagination.max_pages range over 1..MaxPages
MaxContainers == 2     \* containers on one listing page
MaxRows == 3           \* rows a table holds before the model stops saving
MaxBatch == 2          \* jobs in one batch of main.save_jobs_to_database
MaxSelectorLen == 3    \* tokens of a selector string (longer ones are listed in LongSelectors)
MaxSyntheticPages == 3 \* pagination.max_pages ranges over 1..MaxSyntheticPages where paging is studied on its own
MaxAdvances == 3       \* calls of get_next_page_url along one crawl

-----------------------------------------------------------------------------
(* Dictionaries are functions from keys to strings *)

EmptyDict == [k \in {} |-> ""]

\* dict.get(k) used for its truth value: a missing key and "" are both falsy
Get(d, k) == IF k \in DOMAIN d THEN d[k] ELSE ""

\* dict.update
Update(d, e) == [k \in (DOMAIN d) \cup (DOMAIN e) |-> IF k \in DOMAIN e THEN e[k] ELSE d[k]]

\* d[k] = v
Put(d, k, v) == [x \in (DOMAIN d) \cup {k} |-> IF x = k THEN v ELSE d[x]]

\* d.pop(k, None)
Pop(d, k) == [x \in (DOMAIN d) \ {k} |-> d[x]]

Truthy(s) == s # ""

-----------------------------------------------------------------------------
(* JobData: the 23 canonical fields *)

JobDataFields ==
    {"url", "title", "company", "location", "description", "full_description",
     "requirements", "posted_date", "job_type", "department", "experience_level",
     "salary", "benefits", "closing_date", "work_arrangement", "travel_required",
     "eligibility", "clearance", "physical_requirements", "equal_opportunity",
     "job_id", "source_site", "scraped_at"}

\* JobData(**job_data): every field, "" by default
JobData(job_data) == [f \in JobDataFields |-> IF f \in DOMAIN job_data THEN job_data[f] ELSE ""]

\* the mapping of date_posted onto posted_date
SanitizeDatePosted(job_data) ==
    IF "date_posted" \in DOMAIN job_data
    THEN Pop(IF ~Truthy(Get(job_data, "posted_date")) /\ Truthy(job_data["date_posted"])
             THEN Put(job_data, "posted_date", job_data["date_posted"])
             ELSE job_data,
             "date_posted")
    ELSE job_data

\* url is filled from apply_url when url is missing or empty
SanitizeUrl(job_data) ==
    IF Truthy(Get(job_data, "apply_url")) /\ ~Truthy(Get(job_data, "url"))
    THEN Put(job_data, "url", job_data["apply_url"])
    ELSE job_data

\* mutant: the whitelist filter is left out
KeepEverything(job_data) == job_data

\* only the keys of JobData are kept
KeepAllowed(job_data) == [k \in (DOMAIN job_data) \cap JobDataFields |-> job_data[k]]

\* mutant: the whitelist filter runs before the alias table
_sanitize_filter_first(job_data) == SanitizeUrl(SanitizeDatePosted(KeepAllowed(job_data)))

_sanitize_job_fields(job_data) == KeepAllowed(SanitizeUrl(SanitizeDatePosted(job_data)))

-----------------------------------------------------------------------------
(* Locators.  A URL is base[?...][page=n ...]: its base, whether it holds a *)
(* '?', and the values of its page= parameters in order of appearance.     *)

NoneUrl == [base |-> "None", q |-> FALSE, pg |-> <<>>]
EmptyUrl == [base |-> "", q |-> FALSE, pg |-> <<>>]
ListingUrl == [base |-> "https://h/jobs", q |-> FALSE, pg |-> <<>>]

\* truth value of a locator: None and '' are falsy
UrlTruthy(u) == u.base \notin {"None", ""}

\* urljoin(current_url, '?page=k'): a query-only reference replaces the query
urljoin(cur, href) == [base |-> cur.base, q |-> TRUE, pg |-> <<href>>]

\* identity links: absolute ones and a root-relative one
AbsoluteUrls == {"https://h/a", "https://h/b"}
RelativeUrls == {"/a"}

StartsWithSlash(s) == s \in RelativeUrls

\* urljoin(base_url, '/a'), and scheme://netloc/a for a Workday host: the same URL
urljoin_path(base_url, path) == IF path = "/a" THEN "https://h/a" ELSE path

-----------------------------------------------------------------------------
(* Site profiles *)

DetailFieldSets == {{"full_description"}, {"title", "url"}}

Paginations ==
    [next_page_selector : {"", "a.next", "a.next::attr(href)"},
     use_javascript : BOOLEAN,
     max_pages : 1..MaxPages]

\* a loaded profile; opts_ok is FALSE when key scraping_options is present and null
Profile(start, details, pagination, opts) ==
    [site_name |-> "S", start_url |-> start, job_detail_selectors |-> details,
     pagination |-> pagination, opts_ok |-> opts]

PlainPagination == [next_page_selector |-> "a.next", use_javascript |-> FALSE, max_pages |-> 1]

Configs ==
    {Profile(ListingUrl, d, p, TRUE) : d \in DetailFieldSets, p \in Paginations}
        \cup {Profile(ListingUrl, d, PlainPagination, FALSE) : d \in DetailFieldSets}
        \cup {Profile(EmptyUrl, {"full_description"}, PlainPagination, TRUE)}

\* load_config returns {} when the file is missing or unparsable
NoConfig == Profile(EmptyUrl, {}, [next_page_selector |-> "", use_javascript |-> FALSE, max_pages |-> 1], TRUE) 

-----------------------------------------------------------------------------
(* Listing pages *)

\* what the field selectors title and apply_url extract from one container
Containers ==
    {[title |-> "T", apply_url |-> "https://h/a"],
     [title |-> "T", apply_url |-> "https://h/b"],
     [title |-> "T", apply_url |-> "/a"],
     [title |-> "", apply_url |-> "https://h/a"],
     [title |-> "T", apply_url |-> ""]}

SeqsUpTo(S, n) == UNION {[1..k -> S] : k \in 0..n}

\* the next-link lookup: no element, or an element whose href is '' (0) or '?page=2' (2)
NoLink == [elem |-> FALSE, href |-> 0]
NextLinks == {NoLink, [elem |-> TRUE, href |-> 0], [elem |-> TRUE, href |-> 2]}

\* soup.select_one(selector) raises on a selector that holds a ::attr( suffix
SelectRaises(selector) == selector = "a.next::attr(href)"

\* the pages a profile can tell apart: the next link is looked up only with a
\* selector that select_one accepts
PageLinks(cfg) ==
    IF cfg.pagination.next_page_selector = "" \/ SelectRaises(cfg.pagination.next_page_selector)
    THEN {NoLink} ELSE NextLinks

Pages(cfg) == [containers : SeqsUpTo(Containers, MaxContainers), next : PageLinks(cfg)]

\* the keys of a record that scrape_job_listings returns
ListingKeys == {"title", "apply_url", "url", "source_site", "scraped_at"}

\* job_data of one container, lines 231-258
ListingJob(c, cfg) ==
    LET extracted == [k \in {"title", "apply_url"} |-> c[k]]
        resolved == IF Truthy(extracted["apply_url"]) /\ StartsWithSlash(extracted["apply_url"])
                    THEN Put(extracted, "apply_url", urljoin_path(cfg.start_url, extracted["apply_url"]))
                    ELSE extracted
        stamped == Put(Put(resolved, "source_site", cfg.site_name), "scraped_at", "now")
    IN  IF Truthy(stamped["apply_url"]) THEN Put(stamped, "url", stamped["apply_url"]) ELSE stamped

\* mutant: the validation checks the title only
ListingValidTitleOnly(job_data) == Truthy(Get(job_data, "title"))

\* the validation of line 261
ListingValid(job_data) == Truthy(Get(job_data, "title")) /\ Truthy(Get(job_data, "apply_url"))

RECURSIVE ScanFrom(_, _, _, _, _)
ScanFrom(containers, i, cfg, jobs, seen) ==
    IF i > Len(containers) THEN jobs
    ELSE LET job_data == ListingJob(containers[i], cfg)
         IN  IF ListingValid(job_data) /\ job_data["apply_url"] \notin seen
             THEN ScanFrom(containers, i + 1, cfg, Append(jobs, job_data), seen \cup {job_data["apply_url"]})
             ELSE ScanFrom(containers, i + 1, cfg, jobs, seen)

scrape_job_listings(html_content, cfg) == ScanFrom(html_content.containers, 1, cfg, <<>>, {})

\* the cross-page filter of lines 425-431: the jobs kept and the new seen_urls
RECURSIVE FilterFrom(_, _, _, _)
FilterFrom(page_jobs, i, kept, seen) ==
    IF i > Len(page_jobs) THEN [kept |-> kept, seen |-> seen]
    ELSE LET job == page_jobs[i]
         IN  IF Truthy(Get(job, "apply_url")) /\ job["apply_url"] \notin seen
             THEN FilterFrom(page_jobs, i + 1, Append(kept, job), seen \cup {job["apply_url"]})
             ELSE FilterFrom(page_jobs, i + 1, kept, seen)

\* mutant: the records of a page are not checked against seen_urls
UniquePageJobsUnfiltered(page_jobs, seen) ==
    [kept |-> page_jobs, seen |-> seen \cup {page_jobs[i]["apply_url"] : i \in 1..Len(page_jobs)}]

UniquePageJobs(page_jobs, seen) == FilterFrom(page_jobs, 1, <<>>, seen)

\* JobScraperEngine.scrape_jobs_from_page: job_data of one container, for a
\* profile whose field selectors are the keys of c (lines 93-102)
EngineJob(c, cfg) == Put(Put(c, "source_site", cfg.site_name), "scraped_at", "now")

\* the validation of line 105 of the engine
EngineValid(job_data) == Truthy(Get(job_data, "title")) /\ Truthy(Get(job_data, "company"))

RECURSIVE EngineScanFrom(_, _, _, _)
EngineScanFrom(containers, i, cfg, jobs) ==
    IF i > Len(containers) THEN jobs
    ELSE LET job_data == EngineJob(containers[i], cfg)
         IN  EngineScanFrom(containers, i + 1, cfg, IF EngineValid(job_data) THEN Append(jobs, job_data) ELSE jobs)

engine_scrape_jobs_from_page(html_content, cfg) == EngineScanFrom(html_content.containers, 1, cfg, <<>>)

-----------------------------------------------------------------------------
(* Pagination *)

handle_javascript_pagination(cur, cfg) ==
    LET current_page == IF cur.pg # <<>> THEN cur.pg[1] ELSE 1
        next_page == current_page + 1
        next_url == [base |-> cur.base, q |-> TRUE, pg |-> Append(cur.pg, next_page)]
    IN  IF next_page > cfg.pagination.max_pages THEN NoneUrl ELSE next_url

get_next_page_url(link, cfg, cur) ==
    LET selector == cfg.pagination.next_page_selector
    IN  IF selector # "" /\ SelectRaises(selector) THEN NoneUrl
        ELSE IF selector # "" /\ link.elem /\ link.href # 0 THEN urljoin(cur, link.href)
        ELSE IF cfg.pagination.use_javascript THEN handle_javascript_pagination(cur, cfg)
        ELSE NoneUrl

-----------------------------------------------------------------------------
(* Detail pages and the sink *)

DetailValues(field) ==
    IF field = "title" THEN {"", "T2"}
    ELSE IF field = "url" THEN {"", "https://h/a"}
    ELSE {"", "D"}

\* what the detail selectors of the profile extract from one detail page
DetailPages(cfg) == {f \in [cfg.job_detail_selectors -> {"", "T2", "https://h/a", "D"}] : \A k \in DOMAIN f : f[k] \in DetailValues(k)}

\* get_page_content: None on any error, else the page
FetchFailed == [ok |-> FALSE, fields |-> EmptyDict]
Fetched(page) == [ok |-> TRUE, fields |-> page]

\* mutant: a failed fetch is parsed as an empty page, every selector yielding ''
scrape_job_details_of_empty_page(job_url, cfg, html_content) == [field \in cfg.job_detail_selectors |-> IF html_content.ok THEN html_content.fields[field] ELSE ""]

scrape_job_details(job_url, cfg, html_content) ==
    IF ~html_content.ok THEN EmptyDict
    ELSE [field \in cfg.job_detail_selectors |-> html_content.fields[field]]

\* mutant: the record is not written when it is processed
save_job_to_database_deferred(rows, job_data) == rows

\* INSERT OR REPLACE into a table whose only key is the autoincrement id
save_job_to_database(rows, job_data) == Append(rows, JobData(_sanitize_job_fields(job_data)))

-----------------------------------------------------------------------------
(* scrape_site *)

\* mutant: the loop admits one page more than max_pages
LoopHeadOneMore(url, n) == IF UrlTruthy(url) /\ n <= max_pages THEN "fetch" ELSE "done"

\* the loop condition of line 412
LoopHead(url, n) == IF UrlTruthy(url) /\ n < max_pages THEN "fetch" ELSE "done"

\* mutant: the records of a page are collected last to first
SanitizeAllReversed(jobs) == [i \in 1..Len(jobs) |-> _sanitize_job_fields(jobs[Len(jobs) + 1 - i])]

\* lines 452-454: the records of the page, sanitized, in the order of the page
SanitizeAll(jobs) == [i \in 1..Len(jobs) |-> _sanitize_job_fields(jobs[i])]

NoRet == [kind |-> "none", val |-> ""]

\* the variables of the other entry points, when they are not in use
NoMulti == config_files = <<>> /\ file_i = 0 /\ results = EmptyDict
NoAux == table = <<>> /\ arg = EmptyDict /\ ret = NoRet

Locals0 ==
    /\ config = NoConfig
    /\ current_url = NoneUrl
    /\ pages_scraped = 0
    /\ seen_urls = {}
    /\ all_jobs = <<>>
    /\ unique_page_jobs = <<>>
    /\ idx = 0
    /\ next_link = NoLink
    /\ fetches = [listing |-> 0, detail |-> 0]

\* a direct call scrape_site(config_file, max_pages, scrape_job_details) on a new scraper
Init ==
    /\ pc = "call"
    /\ max_pages \in 1..MaxPages
    /\ scrape_details \in BOOLEAN
    /\ Locals0
    /\ db = <<>>
    /\ NoMulti
    /\ NoAux

\* mutant: seen_urls lives on the scraper and is kept from call to call
LoadConfigFromKeepingSeen(profiles) ==
    /\ pc = "call"
    /\ \E cfg \in profiles \cup {NoConfig} :
        /\ config' = cfg
        /\ current_url' = IF cfg = NoConfig THEN NoneUrl ELSE cfg.start_url
        /\ pc' = IF cfg = NoConfig THEN "done" ELSE LoopHead(cfg.start_url, 0)
    /\ all_jobs' = <<>>
    /\ pages_scraped' = 0
    /\ fetches' = [listing |-> 0, detail |-> 0]
    /\ UNCHANGED <<max_pages, scrape_details, seen_urls, unique_page_jobs, idx, next_link, db>>
    /\ UNCHANGED outer_vars

\* lines 400-410, the profile being one of profiles
LoadConfigFrom(profiles) ==
    /\ pc = "call"
    /\ \E cfg \in profiles \cup {NoConfig} :
        /\ config' = cfg
        /\ current_url' = IF cfg = NoConfig THEN NoneUrl ELSE cfg.start_url
        /\ pc' = IF cfg = NoConfig THEN "done" ELSE LoopHead(cfg.start_url, 0)
    /\ all_jobs' = <<>>
    /\ seen_urls' = {}
    /\ pages_scraped' = 0
    /\ fetches' = [listing |-> 0, detail |-> 0]
    /\ UNCHANGED <<max_pages, scrape_details, unique_page_jobs, idx, next_link, db>>
    /\ UNCHANGED outer_vars

LoadConfig == LoadConfigFrom(Configs)

\* mutant: a failed listing fetch is retried
ListingFetchFailRetries ==
    /\ pc = "fetch"
    /\ pc' = IF fetches.listing < MaxPages THEN "fetch" ELSE "done"
    /\ fetches' = [fetches EXCEPT !.listing = @ + 1]
    /\ UNCHANGED <<config, max_pages, scrape_details, current_url, pages_scraped, seen_urls,
                   all_jobs, unique_page_jobs, idx, next_link, db>>
    /\ UNCHANGED outer_vars

\* mutant: a failed listing fetch returns [] instead of leaving the loop
ListingFetchFailReturnsEmpty ==
    /\ pc = "fetch"
    /\ pc' = "done"
    /\ all_jobs' = <<>>
    /\ fetches' = [fetches EXCEPT !.listing = @ + 1]
    /\ UNCHANGED <<config, max_pages, scrape_details, current_url, pages_scraped, seen_urls,
                   unique_page_jobs, idx, next_link, db>>
    /\ UNCHANGED outer_vars

\* lines 416-418: the listing fetch fails
ListingFetchFail ==
    /\ pc = "fetch"
    /\ pc' = "done"
    /\ fetches' = [fetches EXCEPT !.listing = @ + 1]
    /\ UNCHANGED <<config, max_pages, scrape_details, current_url, pages_scraped, seen_urls,
                   all_jobs, unique_page_jobs, idx, next_link, db>>
    /\ UNCHANGED outer_vars

\* lines 416-433: the listing fetch succeeds, the page is scanned and filtered
ListingFetchOk ==
    /\ pc = "fetch"
    /\ \E html_content \in Pages(config) :
        LET page_jobs == scrape_job_listings(html_content, config)
            r == UniquePageJobs(page_jobs, seen_urls)
        IN  /\ seen_urls' = r.seen
            /\ unique_page_jobs' = r.kept
            /\ next_link' = html_content.next
            /\ idx' = 1
            /\ pc' = IF scrape_details /\ Len(r.kept) > 0 THEN "detail" ELSE "collect"
    /\ fetches' = [fetches EXCEPT !.listing = @ + 1]
    /\ UNCHANGED <<config, max_pages, scrape_details, current_url, pages_scraped, all_jobs, db>>
    /\ UNCHANGED outer_vars

\* lines 438-449 for job idx, given what the detail fetch returned and whether
\* the write of save_job_to_database went through (its except swallows a failure)
DetailStepSaving(html_content, saved) ==
    LET job == unique_page_jobs[idx]
        job_details == scrape_job_details(job["apply_url"], config, html_content)
        merged == Update(job, job_details)
    IN  /\ unique_page_jobs' = [unique_page_jobs EXCEPT ![idx] = merged]
        /\ db' = IF saved THEN save_job_to_database(db, merged) ELSE db
        /\ fetches' = [fetches EXCEPT !.detail = @ + 1]
        /\ IF ~config.opts_ok
           THEN pc' = "raised" /\ idx' = idx
           ELSE /\ idx' = idx + 1
                /\ pc' = IF idx < Len(unique_page_jobs) THEN "detail" ELSE "collect"
        /\ UNCHANGED <<config, max_pages, scrape_details, current_url, pages_scraped,
                       seen_urls, all_jobs, next_link>>
        /\ UNCHANGED outer_vars

\* lines 438-449 for job idx, the write going through
DetailStep(html_content) == DetailStepSaving(html_content, TRUE)

DetailFetchOk ==
    /\ pc = "detail"
    /\ \E page \in DetailPages(config) : DetailStep(Fetched(page))

DetailFetchFail ==
    /\ pc = "detail"
    /\ DetailStep(FetchFailed)

\* lines 451-463: collect the page's records and advance
Collect ==
    /\ pc = "collect"
    /\ all_jobs' = all_jobs \o SanitizeAll(unique_page_jobs)
    /\ current_url' = get_next_page_url(next_link, config, current_url)
    /\ pages_scraped' = pages_scraped + 1
    /\ pc' = IF ~config.opts_ok THEN "raised" ELSE LoopHead(current_url', pages_scraped')
    /\ unique_page_jobs' = <<>>
    /\ idx' = 0
    /\ next_link' = NoLink
    /\ UNCHANGED <<config, max_pages, scrape_details, seen_urls, db, fetches>>
    /\ UNCHANGED outer_vars

Next ==
    \/ LoadConfig
    \/ ListingFetchFail
    \/ ListingFetchOk
    \/ DetailFetchOk
    \/ DetailFetchFail
    \/ Collect

Spec == Init /\ [][Next]_vars

-----------------------------------------------------------------------------
(* scrape_multiple_sites *)

ConfigFileLists == {<<"a.yaml">>, <<"a.yaml", "b.yaml">>}

\* the profiles the files of a multi-site run may hold
JsPagination == [next_page_selector |-> "", use_javascript |-> TRUE, max_pages |-> 2]

SiteConfigs ==
    {Profile(ListingUrl, {"full_description"}, JsPagination, TRUE),
     Profile(ListingUrl, {"full_description"}, JsPagination, FALSE)}

\* scrape_multiple_sites(config_files, max_pages_per_site) on a new scraper
InitMulti ==
    /\ pc = "multi"
    /\ max_pages \in 1..MaxPages
    /\ scrape_details = TRUE
    /\ Locals0
    /\ db = <<>>
    /\ config_files \in ConfigFileLists
    /\ file_i = 1
    /\ results = EmptyDict
    /\ NoAux

\* lines 472-475: the call of scrape_site for the next file, or line 482
SiteCall ==
    /\ pc = "multi"
    /\ pc' = IF file_i <= Len(config_files) THEN "call" ELSE "finished"
    /\ UNCHANGED crawl_vars
    /\ UNCHANGED multi_vars
    /\ UNCHANGED aux_vars

LoadSiteConfig == LoadConfigFrom(SiteConfigs)

\* lines 476-477: scrape_site returned
SiteReturn ==
    /\ pc = "done"
    /\ results' = Put(results, config_files[file_i], all_jobs)
    /\ file_i' = file_i + 1
    /\ pc' = "multi"
    /\ UNCHANGED crawl_vars
    /\ UNCHANGED config_files
    /\ UNCHANGED aux_vars

\* mutant: the exception of scrape_site is not caught and ends the run
SiteRaisedPropagates ==
    /\ pc = "raised"
    /\ pc' = "finished"
    /\ UNCHANGED crawl_vars
    /\ UNCHANGED multi_vars
    /\ UNCHANGED aux_vars

\* lines 478-480: scrape_site raised
SiteRaised ==
    /\ pc = "raised"
    /\ results' = Put(results, config_files[file_i], <<>>)
    /\ file_i' = file_i + 1
    /\ pc' = "multi"
    /\ UNCHANGED crawl_vars
    /\ UNCHANGED config_files
    /\ UNCHANGED aux_vars

NextMulti ==
    \/ SiteCall
    \/ LoadSiteConfig
    \/ ListingFetchFail
    \/ ListingFetchOk
    \/ DetailFetchOk
    \/ DetailFetchFail
    \/ Collect
    \/ SiteReturn
    \/ SiteRaised

SpecMulti == InitMulti /\ [][NextMulti]_vars

-----------------------------------------------------------------------------
(* _sanitize_job_fields on its own *)

SanitizerKeys == {"title", "url", "apply_url", "posted_date", "date_posted", "scraped_at", "junk"}

RawRecords == UNION {[keys -> {"", "x", "y"}] : keys \in SUBSET SanitizerKeys}

InitSanitize ==
    /\ pc = "sanitize"
    /\ max_pages = 1
    /\ scrape_details = FALSE
    /\ Locals0
    /\ db = <<>>
    /\ NoMulti
    /\ table = <<>>
    /\ arg \in RawRecords
    /\ ret = NoRet

Sanitize ==
    /\ pc = "sanitize"
    /\ ret' = [kind |-> "dict", val |-> _sanitize_job_fields(arg)]
    /\ pc' = "sanitized"
    /\ UNCHANGED <<crawl_vars, multi_vars, table, arg>>

NextSanitize ==
    \/ Sanitize

SpecSanitize == InitSanitize /\ [][NextSanitize]_vars

-----------------------------------------------------------------------------
(* save_job_to_database on its own: calls on one database, as in a re-run *)

\* records as scrape_site hands them to the sink
SinkJobs ==
    {[k \in ListingKeys |->
        CASE k = "title" -> t
          [] k \in {"apply_url", "url"} -> u
          [] k = "source_site" -> "S"
          [] OTHER -> ts] : t \in {"T", "T2"}, u \in AbsoluteUrls, ts \in {"now", "later"}}

InitSink ==
    /\ pc = "sink"
    /\ max_pages = 1
    /\ scrape_details = TRUE
    /\ Locals0
    /\ db = <<>>
    /\ NoMulti
    /\ NoAux

SaveJob ==
    /\ pc = "sink"
    /\ Len(db) < MaxRows
    /\ \E job \in SinkJobs : db' = save_job_to_database(db, job)
    /\ UNCHANGED <<pc, config, max_pages, scrape_details, current_url, pages_scraped, seen_urls,
                   all_jobs, unique_page_jobs, idx, next_link, fetches>>
    /\ UNCHANGED outer_vars

NextSink ==
    \/ SaveJob

SpecSink == InitSink /\ [][NextSink]_vars

-----------------------------------------------------------------------------
(* main.save_jobs_to_database: the batch sink of main.py *)

BatchJobs == [title : {"A", "B"}, company : {"X"}]

SourceSites == {"s1", "s2"}

\* Job(...) of lines 35-45, reduced to the columns of the lookup
JobRow(job_data, source_site) == [title |-> job_data.title, company |-> job_data.company, source_site |-> source_site]

\* db.query(Job).filter(...).first(): the session does not autoflush, so the
\* lookup sees the stored rows and not the jobs added by this call
ExistingJob(stored, job_data, source_site) == \E i \in 1..Len(stored) : stored[i] = JobRow(job_data, source_site)

\* the jobs the loop of lines 26-47 adds to the session
RECURSIVE PendingFrom(_, _, _, _, _)
PendingFrom(stored, jobs_data, source_site, i, pending) ==
    IF i > Len(jobs_data) THEN pending
    ELSE IF ~ExistingJob(stored, jobs_data[i], source_site)
         THEN PendingFrom(stored, jobs_data, source_site, i + 1, Append(pending, JobRow(jobs_data[i], source_site)))
         ELSE PendingFrom(stored, jobs_data, source_site, i + 1, pending)

\* mutant: the jobs added before the error stay stored
save_jobs_to_database_without_rollback(stored, jobs_data, source_site, commit_ok) ==
    stored \o PendingFrom(stored, jobs_data, source_site, 1, <<>>)

\* the table after the call: commit stores the pending jobs, rollback none
save_jobs_to_database(stored, jobs_data, source_site, commit_ok) ==
    IF commit_ok THEN stored \o PendingFrom(stored, jobs_data, source_site, 1, <<>>) ELSE stored

InitMain ==
    /\ pc = "main"
    /\ max_pages = 1
    /\ scrape_details = FALSE
    /\ Locals0
    /\ db = <<>>
    /\ NoMulti
    /\ NoAux

\* one call; commit_ok is FALSE when an error is raised inside the try of
\* lines 24-47, and arg keeps the call's arguments
SaveJobsToDatabase ==
    /\ pc = "main"
    /\ Len(table) < MaxRows
    /\ \E jobs_data \in SeqsUpTo(BatchJobs, MaxBatch), source_site \in SourceSites, commit_ok \in BOOLEAN :
          /\ table' = save_jobs_to_database(table, jobs_data, source_site, commit_ok)
          /\ arg' = [jobs_data |-> jobs_data, source_site |-> source_site, commit_ok |-> commit_ok]
    /\ UNCHANGED <<pc, crawl_vars, multi_vars, ret>>

NextMain ==
    \/ SaveJobsToDatabase

SpecMain == InitMain /\ [][NextMain]_vars

-----------------------------------------------------------------------------
(* extract_text_from_selector.  A selector string is a sequence of tokens;  *)
(* the string operations of the code are the operations on that sequence.  *)

Tokens == {"a", "b", "[", "::text", "::attr(", "href", ")", ","}

LongSelectors ==
    {<<"a", "::attr(", "href", ")">>,
     <<"b", "::attr(", "href", ")">>,
     <<"a", "::text", ",", "b", "::text">>,
     <<"a", "::attr(", "href", ")", ",", "b">>}

Selectors == SeqsUpTo(Tokens, MaxSelectorLen) \cup LongSelectors

\* a parsed element: its text and its href attribute ('' also when it has none)
NoElem == [present |-> FALSE, text |-> "", href |-> ""]
Elem(text, href) == [present |-> TRUE, text |-> text, href |-> href]

\* a scope: None, or a tree with at most one <a> followed by at most one <b>
NoneScope == [valid |-> FALSE, a |-> NoElem, b |-> NoElem]
Tree(a, b) == [valid |-> TRUE, a |-> a, b |-> b]

Scopes ==
    {NoneScope,
     Tree(NoElem, NoElem),
     Tree(Elem("Title", "/x"), NoElem),
     Tree(Elem("", ""), Elem("Title", "/x")),
     Tree(NoElem, Elem("Title", "/x"))}

\* the (soup, element) pairs the function is studied on
ScopePairs ==
    {[soup |-> sc, element |-> NoneScope] : sc \in Scopes}
        \cup {[soup |-> Tree(Elem("Title", "/x"), NoElem), element |-> Tree(NoElem, NoElem)],
              [soup |-> Tree(NoElem, NoElem), element |-> Tree(Elem("", ""), Elem("Title", "/x"))]}

\* sel.split(',')
RECURSIVE SplitFrom(_, _, _, _)
SplitFrom(sel, i, cur, acc) ==
    IF i > Len(sel) THEN Append(acc, cur)
    ELSE IF sel[i] = "," THEN SplitFrom(sel, i + 1, <<>>, Append(acc, cur))
    ELSE SplitFrom(sel, i + 1, Append(cur, sel[i]), acc)

Split(sel) == SplitFrom(sel, 1, <<>>, <<>>)

\* tok in sel
Contains(sel, tok) == \E i \in 1..Len(sel) : sel[i] = tok

\* sel.replace(tok, '')
Remove(sel, tok) == SelectSeq(sel, LAMBDA t : t # tok)

FirstIndex(sel, tok, from) == CHOOSE i \in from..Len(sel) : sel[i] = tok /\ \A k \in from..(i - 1) : sel[k] # tok

\* the positions where ::attr\(([^)]+)\) matches: an opener, a name of one
\* character or more without ')', and a ')'
AttrMatchAt(sel, i) == sel[i] = "::attr(" /\ i + 1 <= Len(sel) /\ sel[i + 1] # ")" /\ \E j \in (i + 2)..Len(sel) : sel[j] = ")"

\* re.search(r'::attr\(([^)]+)\)', sel) is not None
AttrMatches(sel) == \E i \in 1..Len(sel) : AttrMatchAt(sel, i)

\* attr_match.group(1) of the leftmost match
AttrName(sel) ==
    LET i == CHOOSE i \in 1..Len(sel) : AttrMatchAt(sel, i) /\ \A k \in 1..(i - 1) : ~AttrMatchAt(sel, k)
    IN  SubSeq(sel, i + 1, FirstIndex(sel, ")", i + 2) - 1)

\* sel.split('::attr(')[0]
BeforeAttr(sel) == SubSeq(sel, 1, FirstIndex(sel, "::attr(", 1) - 1)

\* one selector of a comma-separated CSS group: identifier tokens only
ValidCss(part) == part # <<>> /\ \A i \in 1..Len(part) : part[i] \in {"a", "b", "href"}

\* target.select_one(css): raises on None and on a selector that soupsieve
\* rejects, else the first element in document order that a selector of the
\* group matches, else None
select_one(target, css) ==
    LET parts == Split(css)
        hit(name) == \E i \in 1..Len(parts) : parts[i] = <<name>>
    IN  IF ~target.valid \/ \E i \in 1..Len(parts) : ~ValidCss(parts[i]) THEN [kind |-> "raise", elem |-> NoElem]
        ELSE IF hit("a") /\ target.a.present THEN [kind |-> "elem", elem |-> target.a]
        ELSE IF hit("b") /\ target.b.present THEN [kind |-> "elem", elem |-> target.b]
        ELSE [kind |-> "none", elem |-> NoElem]

\* elem.get(attr_name, "")
GetAttr(elem, attr_name) == IF attr_name = <<"href">> THEN elem.href ELSE ""

Str(v) == [kind |-> "str", val |-> v]
NoneValue == [kind |-> "none", val |-> ""]

\* one alternative of UniversalJobScraper.extract_text_from_selector, lines
\* 191-211: the value returned, or kind "next" when the loop goes on
ExtractAlternative(target, sel) ==
    LET css == IF Contains(sel, "::text") THEN Remove(sel, "::text")
               ELSE IF Contains(sel, "::attr(") THEN BeforeAttr(sel)
               ELSE sel
        found == select_one(target, css)
    IN  IF Contains(sel, "::text") \/ ~Contains(sel, "::attr(")
        THEN IF found.kind = "elem" THEN Str(found.elem.text) ELSE [kind |-> "next", val |-> ""]
        ELSE IF AttrMatches(sel) /\ found.kind = "elem" THEN Str(GetAttr(found.elem, AttrName(sel)))
        ELSE [kind |-> "next", val |-> ""]

RECURSIVE ExtractFrom(_, _, _)
ExtractFrom(target, selectors, i) ==
    IF i > Len(selectors) THEN Str("")
    ELSE LET r == ExtractAlternative(target, selectors[i])
         IN  IF r.kind = "str" THEN r ELSE ExtractFrom(target, selectors, i + 1)

\* UniversalJobScraper.extract_text_from_selector(soup, selector, element)
extract_text_from_selector(soup, selector, element) ==
    LET target == IF element.valid THEN element ELSE soup
    IN  ExtractFrom(target, Split(selector), 1)

\* JobScraperEngine.extract_text_from_selector(soup, selector)
engine_extract_text_from_selector(soup, selector) ==
    LET css == IF Contains(selector, "::text") THEN Remove(selector, "::text")
               ELSE IF Contains(selector, "::attr(") THEN BeforeAttr(selector)
               ELSE selector
        found == select_one(soup, css)
    IN  IF Contains(selector, "::text") \/ ~Contains(selector, "::attr(")
        THEN IF found.kind = "elem" THEN Str(found.elem.text) ELSE Str("")
        ELSE IF ~AttrMatches(selector) THEN NoneValue
        ELSE IF found.kind = "elem" THEN Str(GetAttr(found.elem, AttrName(selector)))
        ELSE Str("")

InitExtract ==
    /\ pc = "extract"
    /\ max_pages = 1
    /\ scrape_details = FALSE
    /\ Locals0
    /\ db = <<>>
    /\ NoMulti
    /\ table = <<>>
    /\ arg \in [scope : ScopePairs, selector : Selectors]
    /\ ret = NoRet

\* both implementations applied to the same selector; the engine is given
\* the scope that the other one selects
Extract ==
    /\ pc = "extract"
    /\ ret' = [kind |-> "pair",
               universal |-> extract_text_from_selector(arg.scope.soup, arg.selector, arg.scope.element),
               engine |-> engine_extract_text_from_selector(IF arg.scope.element.valid THEN arg.scope.element ELSE arg.scope.soup, arg.selector)]
    /\ pc' = "extracted"
    /\ UNCHANGED <<crawl_vars, multi_vars, table, arg>>

NextExtract ==
    \/ Extract

SpecExtract == InitExtract /\ [][NextExtract]_vars

-----------------------------------------------------------------------------
(* scrape_job_listings on its own *)

ListingConfigs ==
    {Profile(ListingUrl, {"full_description"}, PlainPagination, TRUE),
     Profile(ListingUrl, {"title", "url"}, JsPagination, TRUE)}

\* a container whose identity link is path-relative ('a', no leading slash)
PathRelativeContainers == {[title |-> "T", apply_url |-> "a"]}

\* the pages scrape_job_listings is studied on
ListingPages(cfg) ==
    [containers : SeqsUpTo(Containers \cup PathRelativeContainers, MaxContainers),
     next : PageLinks(cfg)]

InitListing ==
    /\ pc = "listing"
    /\ max_pages = 1
    /\ scrape_details = FALSE
    /\ Locals0
    /\ db = <<>>
    /\ NoMulti
    /\ table = <<>>
    /\ arg \in UNION {{[html_content |-> page, config |-> cfg] : page \in ListingPages(cfg)} : cfg \in ListingConfigs}
    /\ ret = NoRet

\* both scanners applied to the same page and profile
ScrapeJobListings ==
    /\ pc = "listing"
    /\ ret' = [kind |-> "list",
               val |-> scrape_job_listings(arg.html_content, arg.config),
               engine |-> engine_scrape_jobs_from_page(arg.html_content, arg.config)]
    /\ pc' = "listed"
    /\ UNCHANGED <<crawl_vars, multi_vars, table, arg>>

NextListing ==
    \/ ScrapeJobListings

SpecListing == InitListing /\ [][NextListing]_vars

-----------------------------------------------------------------------------
(* get_next_page_url along a crawl: the locator it returns is the locator   *)
(* it is called with for the next page (lines 412 and 457-458)             *)

PagingConfigs ==
    {Profile(ListingUrl, {"full_description"}, p, TRUE) :
        p \in [next_page_selector : {"", "a.next", "a.next::attr(href)"},
               use_javascript : BOOLEAN,
               max_pages : 1..MaxSyntheticPages]}

InitPaging ==
    /\ pc = "paging"
    /\ max_pages = MaxAdvances
    /\ scrape_details = FALSE
    /\ config \in PagingConfigs
    /\ current_url = ListingUrl
    /\ pages_scraped = 0
    /\ seen_urls = {}
    /\ all_jobs = <<>>
    /\ unique_page_jobs = <<>>
    /\ idx = 0
    /\ next_link = NoLink
    /\ fetches = [listing |-> 0, detail |-> 0]
    /\ db = <<>>
    /\ NoMulti
    /\ table = <<>>
    /\ arg = NoneUrl
    /\ ret = NoRet

\* one call get_next_page_url(html_content, config, current_url): next_link is
\* the element a.next of html_content, arg the locator the call was given
GetNextPageUrl ==
    /\ pc = "paging"
    /\ UrlTruthy(current_url)
    /\ pages_scraped < max_pages
    /\ \E link \in NextLinks :
        /\ next_link' = link
        /\ current_url' = get_next_page_url(link, config, current_url)
    /\ arg' = current_url
    /\ pages_scraped' = pages_scraped + 1
    /\ UNCHANGED <<pc, config, max_pages, scrape_details, seen_urls, all_jobs, unique_page_jobs, idx, db, fetches>>
    /\ UNCHANGED <<multi_vars, table, ret>>

NextPaging ==
    \/ GetNextPageUrl

SpecPaging == InitPaging /\ [][NextPaging]_vars

-----------------------------------------------------------------------------
(* scrape_site with profiles whose detail selectors name a stamped field *)

StampConfigs ==
    {Profile(ListingUrl, {"source_site"}, PlainPagination, TRUE),
     Profile(ListingUrl, {"full_description"}, JsPagination, TRUE)}

LoadStampConfig == LoadConfigFrom(StampConfigs)

NextStamp ==
    \/ LoadStampConfig
    \/ ListingFetchFail
    \/ ListingFetchOk
    \/ DetailFetchOk
    \/ DetailFetchFail
    \/ Collect

SpecStamp == Init /\ [][NextStamp]_vars

-----------------------------------------------------------------------------
(* scrape_site with a sink that can fail *)

SinkFailConfigs ==
    {Profile(ListingUrl, {"full_description"}, PlainPagination, TRUE),
     Profile(ListingUrl, {"full_description"}, JsPagination, TRUE),
     Profile(ListingUrl, {"full_description"}, PlainPagination, FALSE)}

LoadSinkFailConfig == LoadConfigFrom(SinkFailConfigs)

\* what get_page_content returns for a detail page
DetailFetches(cfg) == {FetchFailed} \cup {Fetched(page) : page \in DetailPages(cfg)}

\* mutant: the exception of the sink leaves scrape_site
DetailSinkFailPropagates ==
    /\ pc = "detail"
    /\ pc' = "raised"
    /\ fetches' = [fetches EXCEPT !.detail = @ + 1]
    /\ UNCHANGED <<config, max_pages, scrape_details, current_url, pages_scraped, seen_urls,
                   all_jobs, unique_page_jobs, idx, next_link, db>>
    /\ UNCHANGED outer_vars

\* lines 438-449 for job idx, the write of line 377 or 392 raising
DetailSinkFail ==
    /\ pc = "detail"
    /\ \E html_content \in DetailFetches(config) : DetailStepSaving(html_content, FALSE)

NextSinkFail ==
    \/ LoadSinkFailConfig
    \/ ListingFetchFail
    \/ ListingFetchOk
    \/ DetailFetchOk
    \/ DetailFetchFail
    \/ DetailSinkFail
    \/ Collect

SpecSinkFail == Init /\ [][NextSinkFail]_vars

-----------------------------------------------------------------------------
(* Properties of scrape_site *)

Urls(records) == {Get(records[i], "url") : i \in 1..Len(records)}

Distinct(records) == \A i, j \in 1..Len(records) : i # j => Get(records[i], "url") # Get(records[j], "url")

\* the last listing fetch of the invocation failed
ListingFailed == pc = "done" /\ fetches.listing = pages_scraped + 1

\* C1: no two records handed to the sink, and no two records of the returned
\* collection, carry the same identity URL (field url).
C1_NoDuplicateIdentity == Distinct(all_jobs) /\ Distinct(db)

\* C2: at most pagination.max_pages listing pages are fetched for a loaded profile.
C2_AtMostProfileMaxPages == config # NoConfig => fetches.listing <= config.pagination.max_pages

C5_TitleAndUrlNonEmpty ==
    /\ \A i \in 1..Len(all_jobs) : Truthy(Get(all_jobs[i], "title")) /\ Truthy(Get(all_jobs[i], "url"))
    /\ \A i \in 1..Len(db) : Truthy(db[i]["title"]) /\ Truthy(db[i]["url"])

-----------------------------------------------------------------------------
(* Properties of scrape_multiple_sites *)

FilesDone == {config_files[i] : i \in 1..(file_i - 1)}

\* C7: the mapping returned has one entry for every config file; a site whose
\* profile is missing or whose crawl raises has an empty list; a crawl starts
\* from fresh locals whatever the sites before it did; an entry, once written,
\* is not changed by the crawl of another site.
C7_SitesIsolated ==
    /\ [](/\ DOMAIN results = FilesDone
          /\ pc = "finished" => DOMAIN results = {config_files[i] : i \in 1..Len(config_files)}
          /\ (pc = "fetch" /\ pages_scraped = 0) => (all_jobs = <<>> /\ seen_urls = {} /\ fetches.listing = 0))
    /\ [][/\ \A f \in DOMAIN results : f \in DOMAIN results' /\ results'[f] = results[f]
          /\ (pc = "raised" \/ (pc = "done" /\ config = NoConfig)) => results'[config_files[file_i]] = <<>>
          /\ (pc = "done" /\ ListingFailed) => results'[config_files[file_i]] = all_jobs]_vars

\* a site without profile and a site whose crawl raised, then the run is over
C7_Witness ==
    /\ pc = "finished"
    /\ Len(config_files) = 2
    /\ results["a.yaml"] = <<>>
    /\ results["b.yaml"] # <<>>

-----------------------------------------------------------------------------
(* Properties of _sanitize_job_fields *)

-----------------------------------------------------------------------------
(* Properties of the sinks *)

\* C8: table jobs of jobs_database.db never holds two rows with the same url.
C8_OneRowPerUrl == \A i, j \in 1..Len(db) : i # j => db[i]["url"] # db[j]["url"]

\* C9: table jobs of main.py never holds two rows with the same
\* (title, company, source_site).
C9_OneRowPerKey == \A i, j \in 1..Len(table) : i # j => table[i] # table[j]

-----------------------------------------------------------------------------
(* Properties of extract_text_from_selector *)

\* C10: both implementations return a string for every scope and selector, and
\* the empty string when the scope is None or no element is selected.
C10_AlwaysReturnsString ==
    pc = "extracted" =>
        /\ ret.universal.kind = "str"
        /\ ret.engine.kind = "str"
        /\ (~arg.scope.soup.valid /\ ~arg.scope.element.valid) => (ret.universal.val = "" /\ ret.engine.val = "")

\* the scope the universal implementation searches
Target == IF arg.scope.element.valid THEN arg.scope.element ELSE arg.scope.soup

\* what one alternative yields on its own ('' when it selects nothing)
AlternativeValue(target, sel) == LET r == ExtractAlternative(target, sel) IN IF r.kind = "str" THEN r.val ELSE ""

\* the value of the leftmost alternative that yields a non-empty value, else ''
FirstNonEmpty(target, alternatives) ==
    IF \E i \in 1..Len(alternatives) : AlternativeValue(target, alternatives[i]) # ""
    THEN AlternativeValue(target, alternatives[CHOOSE i \in 1..Len(alternatives) :
             /\ AlternativeValue(target, alternatives[i]) # ""
             /\ \A k \in 1..(i - 1) : AlternativeValue(target, alternatives[k]) = ""])
    ELSE ""

\* C11: UniversalJobScraper.extract_text_from_selector returns the value of the
\* leftmost alternative that yields a non-empty value; an alternative whose
\* element matches with an empty text or attribute does not win over a later
\* non-empty one.
C11_FirstNonEmptyAlternativeWins ==
    pc = "extracted" => ret.universal = Str(FirstNonEmpty(Target, Split(arg.selector)))

-----------------------------------------------------------------------------
(* Properties of the alias table of _sanitize_job_fields *)

\* C13: the result's posted_date is the raw posted_date when that is populated
\* and otherwise the raw date_posted; the result's url is the raw url when that
\* is populated and otherwise the raw apply_url (a missing key reads as '').
C13_AliasesBeforeFilter ==
    pc = "sanitized" =>
        /\ Get(ret.val, "posted_date") =
              (IF Truthy(Get(arg, "posted_date")) THEN arg["posted_date"] ELSE Get(arg, "date_posted"))
        /\ Get(ret.val, "url") =
              (IF Truthy(Get(arg, "url")) THEN arg["url"] ELSE Get(arg, "apply_url"))

\* both aliases were needed and both values are in the result
C13_Witness ==
    /\ pc = "sanitized"
    /\ ~Truthy(Get(arg, "posted_date")) /\ Truthy(Get(arg, "date_posted"))
    /\ ~Truthy(Get(arg, "url")) /\ Truthy(Get(arg, "apply_url"))
    /\ ret.val["posted_date"] = arg["date_posted"]
    /\ ret.val["url"] = arg["apply_url"]

-----------------------------------------------------------------------------
(* Properties of scrape_job_listings *)

\* the containers of the page that the claim keeps: title and identity link
\* both non-empty, and no kept container before it with the same identity
KeptContainers ==
    LET cs == arg.html_content.containers
        ok(i) == cs[i].title # "" /\ cs[i].apply_url # ""
        id(i) == ListingJob(cs[i], arg.config)["apply_url"]
    IN  {i \in 1..Len(cs) : ok(i) /\ \A j \in 1..(i - 1) : ~(ok(j) /\ id(j) = id(i))}

\* C12: scrape_job_listings returns, in page order, the records of exactly the
\* containers whose title and identity link are both non-empty and whose
\* identity was not returned before on the page; the other containers are
\* dropped and the call returns a list.
C12_ReturnedIffValidAndNew ==
    pc = "listed" =>
        /\ ret.kind = "list"
        /\ Len(ret.val) = Cardinality(KeptContainers)
        /\ \A i \in KeptContainers :
              ret.val[Cardinality({j \in KeptContainers : j <= i})] = ListingJob(arg.html_content.containers[i], arg.config)

\* a container without identity link is dropped and the one after it is returned
C12_Witness ==
    /\ pc = "listed"
    /\ Len(arg.html_content.containers) = 2
    /\ arg.html_content.containers[1].apply_url = ""
    /\ KeptContainers = {2}
    /\ Len(ret.val) = 1

-----------------------------------------------------------------------------
(* Properties of pagination *)

Called == pc = "paging" /\ pages_scraped >= 1

\* the page a locator designates: its page parameter (the one written last), 1 without
PageParam(u) == IF u.pg = <<>> THEN 1 ELSE u.pg[Len(u.pg)]

\* the page has an element a.next with a non-empty href
LinkHasValue == next_link.elem /\ next_link.href # 0

\* C14: when a next-link selector is configured and the page's next link has a
\* non-empty value, the locator returned is that value joined to the locator
\* the call was given, whether or not use_javascript is set.
C14_NextLinkTakesPrecedence ==
    (Called /\ config.pagination.next_page_selector # "" /\ LinkHasValue)
        => current_url = urljoin(arg, next_link.href)

\* C15: along a crawl under synthetic paging only, started at a locator without
\* page parameter, the k-th locator designates page k, and the advance from
\* page n returns None exactly when n + 1 exceeds pagination.max_pages.
C15_SyntheticPagesCountUp ==
    (pc = "paging" /\ config.pagination.next_page_selector = "" /\ config.pagination.use_javascript) =>
        /\ UrlTruthy(current_url) => PageParam(current_url) = pages_scraped + 1
        /\ pages_scraped >= 1 => (current_url = NoneUrl <=> PageParam(arg) + 1 > config.pagination.max_pages)

\* C16: when the next-link rule yields no value (no selector, no element, empty
\* attribute, or select_one raising) and use_javascript is set, the locator
\* returned is the one of synthetic paging.
C16_FallsBackToSyntheticPaging ==
    (/\ Called
     /\ config.pagination.use_javascript
     /\ \/ config.pagination.next_page_selector = ""
        \/ ~LinkHasValue
        \/ SelectRaises(config.pagination.next_page_selector))
        => current_url = handle_javascript_pagination(arg, config)

-----------------------------------------------------------------------------
(* Order of emission, and the sink, in scrape_site *)

IsPrefix(s, t) == Len(s) <= Len(t) /\ SubSeq(t, 1, Len(s)) = s

\* kept holds listing records of the containers cs, each at most once, in the order of cs
IsOrderedSelection(kept, cs) ==
    \E f \in [1..Len(kept) -> 1..Len(cs)] :
        /\ \A i, j \in 1..Len(kept) : i < j => f[i] < f[j]
        /\ \A i \in 1..Len(kept) : kept[i] = ListingJob(cs[f[i]], config)

\* the rows of the records returned, in the order returned
RowsOf(records) == [i \in 1..Len(records) |-> JobData(records[i])]

C19_SinkWithoutDetails == (pc = "done" /\ ~scrape_details) => db = RowsOf(all_jobs)

\* the records of the current page that the detail loop has finished
Processed ==
    CASE pc = "detail" -> idx - 1
      [] pc = "collect" -> Len(unique_page_jobs)
      [] pc = "raised" /\ unique_page_jobs # <<>> -> idx
      [] OTHER -> 0

-----------------------------------------------------------------------------
(* seen_urls across invocations *)

InCrawl == pc \in {"fetch", "detail", "collect", "done", "raised"}

\* the identities of the page in hand (unique_page_jobs is assigned at line 425)
PageIdentities ==
    IF pc \in {"detail", "collect", "raised"}
    THEN {unique_page_jobs[i]["apply_url"] : i \in 1..Len(unique_page_jobs)}
    ELSE {}

\* C18: during an invocation seen_urls holds the identities of the records of
\* this invocation and no other; each invocation starts with seen_urls, all_jobs
\* and pages_scraped as a direct call on a new scraper has them.
C18_SeenUrlsPrivate ==
    /\ [](InCrawl => seen_urls = Urls(all_jobs) \cup PageIdentities)
    /\ [][pc = "call" => (seen_urls' = {} /\ all_jobs' = <<>> /\ pages_scraped' = 0 /\ fetches' = [listing |-> 0, detail |-> 0])]_vars

\* the second site returns a record whose identity the first site returned too
C18_Witness ==
    /\ pc = "done"
    /\ file_i = 2
    /\ "a.yaml" \in DOMAIN results
    /\ Urls(results["a.yaml"]) \cap Urls(all_jobs) # {}

-----------------------------------------------------------------------------
(* Stamps and identity of the records *)

\* C21: every record returned by scrape_site, and every row handed to the
\* sink, has source_site equal to site_name of the profile.
C21_SourceSiteIsSiteName ==
    /\ \A i \in 1..Len(all_jobs) : Get(all_jobs[i], "source_site") = config.site_name
    /\ \A i \in 1..Len(db) : db[i]["source_site"] = config.site_name

\* C22: every record returned by scrape_job_listings for a profile with an
\* absolute start_url has an absolute identity link.
C22_IdentityIsAbsolute ==
    pc = "listed" => \A i \in 1..Len(ret.val) : ret.val[i]["apply_url"] \in AbsoluteUrls

\* C23: sanitizing a record without scraped_at value (key absent or empty)
\* gives a record whose scraped_at is populated.
C23_ScrapedAtAssigned ==
    (pc = "sanitized" /\ ~Truthy(Get(arg, "scraped_at"))) => Truthy(Get(ret.val, "scraped_at"))

\* no alternative of the selector selects an element inside the container
NothingInContainer ==
    \A i \in 1..Len(Split(arg.selector)) : ExtractAlternative(arg.scope.element, Split(arg.selector)[i]).kind = "next"

\* C24: a selector that matches nothing inside the container yields what it
\* yields on the whole page.
C24_FallsBackToWholePage ==
    (pc = "extracted" /\ arg.scope.element.valid /\ NothingInContainer)
        => ret.universal = extract_text_from_selector(arg.scope.soup, arg.selector, NoneScope)

-----------------------------------------------------------------------------
(* Fetcher calls of scrape_site *)

\* C25: a listing fetch that failed is the last Fetcher call of the
\* invocation: at most one listing fetch has failed, none is pending after
\* it, the invocation is then at its return, and no detail page was fetched
\* beyond those of the records returned.
C25_NoFetchAfterListingFailure ==
    /\ fetches.listing \in {pages_scraped, pages_scraped + 1}
    /\ pc \in {"call", "fetch"} => fetches.listing = pages_scraped
    /\ fetches.listing = pages_scraped + 1 => pc \in {"detail", "collect", "raised", "done"}
    /\ ListingFailed => fetches.detail <= Len(all_jobs)

\* the second listing fetch failed after a page with a detail fetch
C25_Witness ==
    /\ ListingFailed
    /\ scrape_details
    /\ fetches = [listing |-> 2, detail |-> 1]
    /\ max_pages = 2

\* C26: for a profile whose field selectors are title and apply_url and a page
\* with two containers, one without title and one with title and identity
\* link, JobScraperEngine.scrape_jobs_from_page returns the valid one only.
C26_EngineKeepsTitleAndLink ==
    (pc = "listed" /\ Len(arg.html_content.containers) = 2) =>
        \A i, j \in 1..2 :
            LET cs == arg.html_content.containers
            IN  (i # j /\ cs[i].title = "" /\ cs[j].title # "" /\ cs[j].apply_url # "")
                    => /\ Len(ret.engine) = 1
                       /\ ret.engine[1]["title"] = cs[j].title
                       /\ ret.engine[1]["apply_url"] = cs[j].apply_url

\* C27: no detail page is fetched without detail scraping; with it, one detail
\* page has been fetched for every record returned or finished on the page in
\* hand, and never more than one per identity seen.
C27_OneDetailFetchPerRecord ==
    /\ ~scrape_details => fetches.detail = 0
    /\ (scrape_details /\ InCrawl) => fetches.detail = Len(all_jobs) + Processed
    /\ fetches.detail <= Cardinality(seen_urls)

\* two pages fetched, one record and one detail fetch
C27_Witness ==
    /\ pc = "done"
    /\ scrape_details
    /\ ~ListingFailed
    /\ pages_scraped = 2
    /\ Len(all_jobs) = 1
    /\ fetches.detail = 1

\* C28: at the loop head and at the return pages_scraped is the number of
\* listing fetches that succeeded (one more has succeeded while a page is in
\* hand); pages_scraped changes only at the end of a page, by one; the number
\* of listing fetches never exceeds the max_pages argument.
C28_PagesBoundedByArgument ==
    /\ [](/\ fetches.listing <= max_pages
          /\ pages_scraped <= max_pages
          /\ pc \in {"fetch", "done"} => pages_scraped = fetches.listing - (IF ListingFailed THEN 1 ELSE 0)
          /\ pc \in {"detail", "collect"} => pages_scraped = fetches.listing - 1)
    /\ [][\/ pages_scraped' = pages_scraped
          \/ pc = "collect" /\ pages_scraped' = pages_scraped + 1]_vars

\* the loop stopped at max_pages with a next locator in hand, the next link
\* of the last page pointing back to that page
C28_Witness ==
    /\ pc = "done"
    /\ max_pages = 2
    /\ fetches.listing = 2
    /\ pages_scraped = 2
    /\ UrlTruthy(current_url)
    /\ current_url.pg = <<2>>

-----------------------------------------------------------------------------
(* Failures of the sinks *)

\* C29: when the write of a record fails inside save_job_to_database, the
\* sink is left as it was and the step is otherwise the step of a successful
\* write: the record keeps its merged fields, the loop goes on to the next
\* record or to the collection of the page, where every record of the page is
\* appended to the returned collection; nothing else of the run is changed.
C29_SinkFailureSwallowed ==
    /\ []((pc \in {"fetch", "done"}) => Len(all_jobs) = Cardinality(seen_urls))
    /\ [][DetailSinkFail =>
            /\ db' = db
            /\ \E html_content \in DetailFetches(config) :
                  unique_page_jobs' = [unique_page_jobs EXCEPT ![idx] =
                      Update(@, scrape_job_details(@["apply_url"], config, html_content))]
            /\ config.opts_ok => /\ idx' = idx + 1
                                 /\ pc' = (IF idx < Len(unique_page_jobs) THEN "detail" ELSE "collect")
            /\ UNCHANGED <<all_jobs, seen_urls, current_url, pages_scraped, next_link>>]_vars

\* two records returned, the write of the first failed and the second is stored
C29_Witness ==
    /\ pc = "done"
    /\ scrape_details
    /\ Len(all_jobs) = 2
    /\ Len(db) = 1
    /\ db[1]["url"] = all_jobs[2]["url"]

\* C30: a call of main.save_jobs_to_database in which an error is raised
\* leaves table jobs as it was before the call and returns to its caller; a
\* call without error only appends rows.
C30_BatchAllOrNothing ==
    [][pc = "main" =>
          /\ pc' = "main"
          /\ ~arg'.commit_ok => table' = table
          /\ arg'.commit_ok => IsPrefix(table, table')]_vars

\* a call with two jobs failed on a table that holds one row
C30_Witness ==
    /\ pc = "main"
    /\ "commit_ok" \in DOMAIN arg
    /\ ~arg.commit_ok
    /\ Len(arg.jobs_data) = 2
    /\ Len(table) = 1

====
